---- MODULE Spec2Model ----
(***************************************************************************)
(* Nomifactory production-chain calculator.                                *)
(*                                                                         *)
(* Two implementations live in the repository and both are modelled:       *)
(*   core   : src/core/oc.py (compute_overclock), src/core/plan.py         *)
(*            (Planner), src/core/models.py (RecipeBook)                   *)
(*   legacy : nomi_calc.py (OverclockingRules, Planner, RecipeBook)        *)
(*                                                                         *)
(* Numbers.  Durations are counted in sub-ticks: one tick (TICK_S = 1/20   *)
(* s) is SubTick sub-ticks, so a duration of q sub-ticks is q/(20*SubTick) *)
(* seconds.  Rates are exact fractions [n, d].  The program computes in    *)
(* binary floating point; the model computes the same expressions in exact *)
(* rational arithmetic.  Run side by side on every calculator call of the  *)
(* model (and floor(log4(mv/eut)) on every tier and integer base power up  *)
(* to 200000), the Python code and these definitions return equal values.  *)
(***************************************************************************)
EXTENDS Integers, Sequences, FiniteSets, TLC

VARIABLES
    oc_in,      \* arguments of the last Overclock Calculator call
    oc_out,     \* what that call returned or raised
    book,       \* the RecipeBook: recipes and active_by_output
    request,    \* arguments of the build_plan call
    plan,       \* what that call returned or raised
    clock,      \* time.time(), counted in calls
    history_entries     \* the GUI's plan history, most recent first

vars == <<oc_in, oc_out, book, request, plan, clock, history_entries>>

(***************************************************************************)
(* Bounds of the model and constants of the program                        *)
(***************************************************************************)
SubTick == 3            \* TICK_S, one tick, is SubTick sub-ticks
MaxTimeQ == 36          \* longest base duration of a calculator call, sub-ticks
MaxEut == 34            \* base powers 0..MaxEut are all tried (plus tier edges)

TICKS_PER_S == 20       \* TICK_S = 1.0 / 20.0
LowPowerLimit == 16     \* base_eut <= 16.0 selects factor 2.0
None == -1              \* Python's None where a number is optional

VOLTAGE_BY_TIER ==
    ("ULV" :> 8) @@ ("LV" :> 32) @@ ("MV" :> 128) @@ ("HV" :> 512) @@
    ("EV" :> 2048) @@ ("IV" :> 8192) @@ ("LuV" :> 32768) @@
    ("ZPM" :> 131072) @@ ("UV" :> 524288) @@ ("UHV" :> 2097152) @@
    ("UEV" :> 8388608)

Tiers == DOMAIN VOLTAGE_BY_TIER

\* A tier name that is not in the table (a typo, a stale history entry).
UnknownTier == "XX"

(***************************************************************************)
(* Arithmetic                                                              *)
(***************************************************************************)
Max(a, b) == IF a >= b THEN a ELSE b

RECURSIVE Pow(_, _)
Pow(b, e) == IF e = 0 THEN 1 ELSE b * Pow(b, e - 1)

\* math.ceil(a / b) and math.floor(a / b) for a >= 0, b > 0
CeilDiv(a, b) == (a + b - 1) \div b

FloorDiv(a, b) == a \div b

\* Python's round(a / b): to the nearest integer, a tie to the even one
RoundHalfEven(a, b) ==
    LET q == a \div b
        r == a % b
    IN  IF 2 * r < b THEN q
        ELSE IF 2 * r > b THEN q + 1
        ELSE IF q % 2 = 0 THEN q ELSE q + 1

\* math.floor(math.log(mv / eut, 4)) for 0 < eut <= mv
RECURSIVE FloorLog4(_, _)
FloorLog4(mv, eut) == IF eut * 4 <= mv THEN 1 + FloorLog4(mv, eut * 4) ELSE 0

\* y / d^n rounded up, resp. down (a division at a time, which is exact for
\* an integer divisor d)
RECURSIVE NestCeil(_, _, _)
NestCeil(y, d, n) == IF n = 0 THEN y ELSE NestCeil(CeilDiv(y, d), d, n - 1)

RECURSIVE NestFloor(_, _, _)
NestFloor(y, d, n) == IF n = 0 THEN y ELSE NestFloor(FloorDiv(y, d), d, n - 1)

(***************************************************************************)
(* Overclock Calculator, core: src/core/oc.py                              *)
(***************************************************************************)
\* factor = 2.0 if base_eut <= 16.0 else 2.8, as the fraction num/den
CoreFactor(base_eut) ==
    IF base_eut <= LowPowerLimit THEN [num |-> 2, den |-> 1]
    ELSE [num |-> 14, den |-> 5]

\* base_ticks = max(1, math.ceil(base_time_s / TICK_S))
CoreBaseTicks(time_q) == Max(1, CeilDiv(time_q, SubTick))

CoreOverclockCount_Quarter(mv, base_eut) ==
    IF base_eut * 4 <= mv THEN FloorLog4(mv \div 4, base_eut) ELSE 0

CoreOverclockCount_Wrapped(mv, base_eut) ==
    (IF base_eut >= mv THEN 0 ELSE FloorLog4(mv, base_eut)) % 3

\* n = int(math.floor(math.log(max(mv / base_eut, 1.0), 4))); n = max(0, n)
CoreOverclockCount(mv, base_eut) ==
    Max(0, IF base_eut >= mv THEN 0 ELSE FloorLog4(mv, base_eut))

CoreShrink_Stretch(base_ticks, base_eut, n) ==
    LET f == CoreFactor(base_eut)
    IN  Max(1, NestCeil(base_ticks * Pow(f.num, n), f.den, n))

\* ticks = max(1, math.ceil(base_ticks / (factor ** n if n > 0 else 1.0)))
CoreShrink(base_ticks, base_eut, n) ==
    LET f == CoreFactor(base_eut)
    IN  Max(1, NestCeil(base_ticks * Pow(f.den, n), f.num, n))

CoreNoPower_Unclamped(time_q) ==
    [kind |-> "ok", overclocks |-> 0,
     ticks |-> Max(1, CeilDiv(time_q, SubTick)), seconds |-> time_q,
     eut |-> 0]

\* The branch taken when base_eut <= 0:
\* ticks = max(1, ceil(base_time_s / TICK_S)), seconds = max(TICK_S, base_time_s)
CoreNoPower(time_q) ==
    [kind |-> "ok", overclocks |-> 0,
     ticks |-> Max(1, CeilDiv(time_q, SubTick)),
     seconds |-> Max(SubTick, time_q), eut |-> 0]

\* The branch taken when base_eut > mv
CoreOverVoltage(time_q, base_eut, mv) ==
    LET ticks == Max(1, CeilDiv(time_q, SubTick))
    IN  [kind |-> "ok", overclocks |-> 0, ticks |-> ticks,
         seconds |-> ticks * SubTick, eut |-> base_eut]

compute_overclock(time_q, base_eut, tier) ==
    IF tier \notin Tiers THEN [kind |-> "KeyError"]
    ELSE
    LET mv == VOLTAGE_BY_TIER[tier]
    IN  IF base_eut <= 0
        THEN CoreNoPower(time_q)
        ELSE IF base_eut > mv
        THEN CoreOverVoltage(time_q, base_eut, mv)
        ELSE
        LET n == CoreOverclockCount(mv, base_eut)
            base_ticks == CoreBaseTicks(time_q)
            ticks == CoreShrink(base_ticks, base_eut, n)
        IN  [kind |-> "ok", overclocks |-> n, ticks |-> ticks,
             seconds |-> ticks * SubTick, eut |-> base_eut * Pow(4, n)]

(***************************************************************************)
(* Overclock Calculator, legacy: nomi_calc.py OverclockingRules            *)
(***************************************************************************)
\* base_ticks = max(1, int(round(r.time_s / TICK_S)))   (the only call site)
LegacyBaseTicks(time_q) == Max(1, RoundHalfEven(time_q, SubTick))

\* n = floor(log(machine_voltage / base_eut, 4)) if base_eut > 0 else 0
LegacyOverclockCount(mv, base_eut) ==
    Max(0, IF base_eut > 0 THEN FloorLog4(mv, base_eut) ELSE 0)

LegacyShrink_Unclamped(base_ticks, base_eut, n) ==
    IF base_eut <= LowPowerLimit
    THEN NestFloor(base_ticks, 2, n)
    ELSE NestCeil(base_ticks * Pow(5, n), 14, n)

\* factor and tick rounding: <= 16 divides by 2.0 and floors, else 2.8, ceils
LegacyShrink(base_ticks, base_eut, n) ==
    IF base_eut <= LowPowerLimit
    THEN Max(1, NestFloor(base_ticks, 2, n))
    ELSE Max(1, NestCeil(base_ticks * Pow(5, n), 14, n))

LegacyStepBack_Unclamped(n, new_ticks, base_ticks, base_eut) ==
    [n |-> n, ticks |-> NestFloor(base_ticks, 2, n)]

\* while new_ticks < 1 and n > 0: n -= 1; recompute
RECURSIVE LegacyStepBack(_, _, _, _)
LegacyStepBack(n, new_ticks, base_ticks, base_eut) ==
    IF new_ticks < 1 /\ n > 0
    THEN LegacyStepBack(n - 1, LegacyShrink(base_ticks, base_eut, n - 1),
                        base_ticks, base_eut)
    ELSE [n |-> n, ticks |-> new_ticks]

LegacyVoltageCheck(base_eut, mv) == base_eut > mv

\* OverclockingRules(tier).apply(base_ticks, base_eut)
apply(base_ticks, base_eut, tier) ==
    IF tier \notin Tiers THEN [kind |-> "UnknownTier"]
    ELSE
    LET mv == VOLTAGE_BY_TIER[tier]
    IN  IF base_eut = None
        THEN [kind |-> "ok", overclocks |-> 0, ticks |-> Max(base_ticks, 1),
              seconds |-> Max(base_ticks, 1) * SubTick, eut |-> 0]
        ELSE IF LegacyVoltageCheck(base_eut, mv)
        THEN [kind |-> "VoltageExceeded"]
        ELSE
        LET n0 == LegacyOverclockCount(mv, base_eut)
            t0 == LegacyShrink(base_ticks, base_eut, n0)
            fin == LegacyStepBack(n0, t0, base_ticks, base_eut)
        IN  [kind |-> "ok", overclocks |-> fin.n, ticks |-> fin.ticks,
             seconds |-> fin.ticks * SubTick,
             eut |-> base_eut * Pow(4, fin.n)]

(***************************************************************************)
(* Calls of the calculators                                                *)
(***************************************************************************)
TimeValues == 1..MaxTimeQ

TierEdges ==
    {VOLTAGE_BY_TIER[t] + d : t \in Tiers, d \in {-1, 0, 1}}

EutValues == (0..MaxEut) \cup TierEdges

TierInputs == Tiers \cup {UnknownTier}

Pending == [kind |-> "pending"]

CoreCalls ==
    [impl : {"core"}, time : TimeValues, base_eut : EutValues,
     tier : TierInputs]

LegacyCalls ==
    [impl : {"legacy"}, time : TimeValues, base_eut : EutValues \cup {None},
     tier : TierInputs]

\* RecipeBook() with no recipe: the calculators read no book
NoBook == [recipes |-> <<>>, active_by_output |-> <<>>]

\* A call is drawn; nothing has been computed yet.
InitOC ==
    /\ oc_in \in CoreCalls \cup LegacyCalls
    /\ oc_out = Pending
    /\ book = NoBook
    /\ request = [impl |-> "none"]
    /\ plan = Pending
    /\ clock = 0
    /\ history_entries = <<>>

\* compute_overclock(base_time_s, base_eut, tier)
ComputeOverclock ==
    /\ oc_in.impl = "core"
    /\ oc_out = Pending
    /\ oc_out' = compute_overclock(oc_in.time, oc_in.base_eut, oc_in.tier)
    /\ UNCHANGED <<oc_in, book, request, plan, clock, history_entries>>

\* OverclockingRules(tier).apply(base_ticks, base_eut), called as
\* Planner._solve_node calls it
Apply ==
    /\ oc_in.impl = "legacy"
    /\ oc_out = Pending
    /\ oc_out' = apply(LegacyBaseTicks(oc_in.time), oc_in.base_eut, oc_in.tier)
    /\ UNCHANGED <<oc_in, book, request, plan, clock, history_entries>>

NextOC == ComputeOverclock \/ Apply

SpecOC == InitOC /\ [][NextOC]_vars

(***************************************************************************)
(* Recipes and the RecipeBook: src/core/models.py                          *)
(***************************************************************************)
NoTier == "None"        \* base_voltage: Optional[Tier] = None

Items == {"A", "B", "C", "R"}

\* class Recipe.  inputs and outputs are dicts: pairs in insertion order,
\* no key twice.
Rec(id, machine, time_q, inputs, outputs, base_eut, base_voltage, gt) ==
    [id |-> id, machine |-> machine, time_s |-> time_q, inputs |-> inputs,
     outputs |-> outputs, base_eut |-> base_eut,
     base_voltage |-> base_voltage, gt_recipe |-> gt]

Qty(item, amt) == [item |-> item, amt |-> amt]

\* The recipes of the books tried.  Durations are in sub-ticks (300 is 5 s).
RecipePool ==
    << Rec("a_asm", "Assembler", 300, <<Qty("B", 2), Qty("C", 1)>>,
           <<Qty("A", 1)>>, None, NoTier, TRUE),
       Rec("a_mac", "Macerator", 13, <<Qty("B", 1)>>,
           <<Qty("A", 2), Qty("C", 1)>>, 8, "MV", TRUE),
       Rec("b_ore", "Macerator", 2, <<Qty("R", 3)>>,
           <<Qty("B", 1)>>, 30, NoTier, FALSE),
       Rec("b_mix", "Mixer", 20, <<Qty("A", 1)>>,
           <<Qty("B", 1)>>, 33, NoTier, TRUE),
       Rec("c_mac", "Macerator", 7, <<Qty("R", 1)>>,
           <<Qty("C", 4)>>, 2, "LV", TRUE),
       Rec("c_self", "Mixer", 9, <<Qty("C", 1), Qty("R", 1)>>,
           <<Qty("C", 2)>>, None, NoTier, TRUE),
       Rec("void", "Mixer", 6, <<>>, <<>>, None, NoTier, TRUE),
       Rec("r_mine", "Miner", 60, <<>>, <<Qty("R", 1)>>, None, "HV", TRUE) >>

\* What active_by_output may hold for each item in a book read from a file
\* ("" is no entry; "gone" is the id of a recipe that is not in the book).
ActiveChoices ==
    ("A" :> {"", "a_asm", "a_mac", "b_ore", "void"}) @@
    ("B" :> {"", "b_ore", "b_mix", "a_mac", "gone"}) @@
    ("C" :> {"", "c_mac", "c_self", "a_mac"}) @@
    ("R" :> {"", "r_mine"})

Books ==
    { [recipes |-> RecipePool,
       active_by_output |-> [i \in {j \in Items : f[j] # ""} |-> f[i]]] :
      f \in { g \in [Items -> UNION {ActiveChoices[i] : i \in Items}] :
              \A i \in Items : g[i] \in ActiveChoices[i] } }

\* dict.get(key) on a sequence of pairs: the amount, or None
DictGet(pairs, item) ==
    IF \E k \in 1..Len(pairs) : pairs[k].item = item
    THEN pairs[CHOOSE k \in 1..Len(pairs) : pairs[k].item = item].amt
    ELSE None

RECURSIVE FirstWithId(_, _, _)
FirstWithId(recipes, rid, k) ==
    IF k > Len(recipes) THEN None
    ELSE IF recipes[k].id = rid THEN k
    ELSE FirstWithId(recipes, rid, k + 1)

\* RecipeBook.get_active_recipe: the index in book.recipes of the active
\* recipe for output_item, or None
get_active_recipe(bk, output_item) ==
    IF output_item \notin DOMAIN bk.active_by_output THEN None
    ELSE IF bk.active_by_output[output_item] = "" THEN None     \* if not rid
    ELSE FirstWithId(bk.recipes, bk.active_by_output[output_item], 1)

\* The keys of a dict kept as a sequence of pairs
Keys(pairs) == {pairs[k].item : k \in 1..Len(pairs)}

UpsertRecipe_KeepStale(bk, recipe, make_active) ==
    LET i == FirstWithId(bk.recipes, recipe.id, 1)
        outs == Keys(recipe.outputs)
    IN  [recipes |->
             IF i = None THEN Append(bk.recipes, recipe)
             ELSE [bk.recipes EXCEPT ![i] = recipe],
         active_by_output |->
             IF make_active
             THEN [o \in DOMAIN bk.active_by_output \cup outs |->
                      IF o \in outs THEN recipe.id
                      ELSE bk.active_by_output[o]]
             ELSE bk.active_by_output]

\* RecipeBook.upsert_recipe: the book after the call
upsert_recipe(bk, recipe, make_active) ==
    LET i == FirstWithId(bk.recipes, recipe.id, 1)
        outs == Keys(recipe.outputs)
        \* the old mappings of the replaced recipe that no longer exist
        stale == IF i = None THEN {}
                 ELSE {out \in Keys(bk.recipes[i].outputs) :
                          /\ out \in DOMAIN bk.active_by_output
                          /\ bk.active_by_output[out] = bk.recipes[i].id
                          /\ out \notin outs}
        kept == [o \in DOMAIN bk.active_by_output \ stale |->
                    bk.active_by_output[o]]
    IN  [recipes |->
             IF i = None THEN Append(bk.recipes, recipe)
             ELSE [bk.recipes EXCEPT ![i] = recipe],
         active_by_output |->
             IF make_active
             THEN [o \in DOMAIN kept \cup outs |->
                      IF o \in outs THEN recipe.id ELSE kept[o]]
             ELSE kept]

\* The loop of next_recipe_id: the first of base_2, base_3, ... not taken
RECURSIVE FirstFreeId(_, _, _)
FirstFreeId(base, existing, idx) ==
    LET candidate == base \o "_" \o ToString(idx)
    IN  IF candidate \notin existing THEN candidate
        ELSE FirstFreeId(base, existing, idx + 1)

\* RecipeBook.next_recipe_id (item ids carry no white space to strip)
next_recipe_id(bk, output_item) ==
    LET base == IF output_item = "" THEN "recipe" ELSE output_item
        existing == {bk.recipes[k].id : k \in 1..Len(bk.recipes)}
    IN  IF base \notin existing THEN base
        ELSE FirstFreeId(base, existing, 2)

(***************************************************************************)
(* Rates: exact fractions in lowest terms                                  *)
(***************************************************************************)
RECURSIVE GCD(_, _)
GCD(a, b) == IF b = 0 THEN a ELSE GCD(b, a % b)

Frac(n, d) ==
    LET g == GCD(n, d)
    IN  IF n = 0 THEN [n |-> 0, d |-> 1] ELSE [n |-> n \div g, d |-> d \div g]

Zero == [n |-> 0, d |-> 1]

(***************************************************************************)
(* Plan Resolver, core: src/core/plan.py                                   *)
(***************************************************************************)
Failure(kind, item, path) == [kind |-> kind, item |-> item, path |-> path]

\* class PlanNode(BaseModel), machine_tier: Tier. Constructing a node checks
\* the tier against the Literal of the eleven tier names and raises
\* pydantic's ValidationError for any other value.
PlanNode(node, path) ==
    IF node.machine_tier \in Tiers THEN [kind |-> "ok", node |-> node]
    ELSE Failure("ValidationError", node.item, path)

\* Planner._primary_output_amount: the amount, or None for the ValueError
\* "Recipe has no outputs"
primary_output_amount(r, item) ==
    LET amt == DictGet(r.outputs, item)
    IN  IF amt = None
        THEN IF Len(r.outputs) > 0 THEN r.outputs[1].amt ELSE None
        ELSE amt

TierForNode_AlwaysBase(r, default_tier, overrides, item) ==
    IF r.base_voltage # NoTier THEN r.base_voltage
    ELSE IF item \in DOMAIN overrides THEN overrides[item] ELSE default_tier

TierForNode_AnyOverride(r, default_tier, overrides, item) ==
    LET tier == IF DOMAIN overrides # {}
                THEN overrides[CHOOSE i \in DOMAIN overrides : TRUE]
                ELSE default_tier
        base_v == r.base_voltage
    IN  IF base_v # NoTier
        THEN IF base_v \in Tiers
                /\ (tier \notin Tiers
                    \/ VOLTAGE_BY_TIER[tier] < VOLTAGE_BY_TIER[base_v])
             THEN base_v ELSE tier
        ELSE tier

\* Planner._tier_for_node
tier_for_node(r, default_tier, overrides, item) ==
    LET tier == IF item \in DOMAIN overrides THEN overrides[item]
                ELSE default_tier
        base_v == r.base_voltage
    IN  IF base_v # NoTier
        THEN IF base_v \in Tiers
                /\ (tier \notin Tiers
                    \/ VOLTAGE_BY_TIER[tier] < VOLTAGE_BY_TIER[base_v])
             THEN base_v ELSE tier
        ELSE tier

RawNode_OneMachine(item, rate, default_tier) ==
    [item |-> item, item_rate_per_s |-> rate, recipe_id |-> "<raw>",
     machine |-> "RAW", machine_tier |-> default_tier, machines_needed |-> 1,
     per_machine_ops_per_s |-> Zero, effective_time_s |-> 0,
     effective_eut |-> 0, overclocks |-> 0, inputs |-> <<>>,
     children |-> <<>>]

\* The RAW node of an item without active recipe
RawNode(item, rate, default_tier) ==
    [item |-> item, item_rate_per_s |-> rate, recipe_id |-> "<raw>",
     machine |-> "RAW", machine_tier |-> default_tier, machines_needed |-> 0,
     per_machine_ops_per_s |-> Zero, effective_time_s |-> 0,
     effective_eut |-> 0, overclocks |-> 0, inputs |-> <<>>,
     children |-> <<>>]

\* if r.base_eut is not None and r.gt_recipe: compute_overclock(...) else the
\* base duration, no power, no overclocks
CoreEffective(r, tier) ==
    IF r.base_eut # None /\ r.gt_recipe
    THEN compute_overclock(r.time_s, r.base_eut, tier)
    ELSE [kind |-> "ok", overclocks |-> 0, seconds |-> r.time_s, eut |-> 0]

Machines_Floor(rate, out_amt, eff_q) ==
    (rate.n * eff_q) \div (rate.d * out_amt * TICKS_PER_S * SubTick)

\* ops_per_machine = 1.0 / eff_time_s; required_ops = rate_per_s / out_amt;
\* machines = int(math.ceil(required_ops / ops_per_machine))
Machines(rate, out_amt, eff_q) ==
    CeilDiv(rate.n * eff_q, rate.d * out_amt * TICKS_PER_S * SubTick)

InputsRates_PerItem(r, rate, out_amt) ==
    [k \in 1..Len(r.inputs) |->
        [item |-> r.inputs[k].item,
         rate |-> Frac(rate.n * r.inputs[k].amt, rate.d)]]

\* inputs_rates: (in_item, required_ops * in_amt) for every input, in order
InputsRates(r, rate, out_amt) ==
    [k \in 1..Len(r.inputs) |->
        [item |-> r.inputs[k].item,
         rate |-> Frac(rate.n * r.inputs[k].amt, rate.d * out_amt)]]

CycleFound_AsRaw(item, rate, default_tier, path) ==
    PlanNode(RawNode(item, rate, default_tier), path)

\* raise ValueError("Cycle detected: ...")
CycleFound(item, rate, default_tier, path) ==
    Failure("Cycle", item, Append(path, item))

InPath_OnlyWhenDeep(item, path) ==
    /\ \E k \in 1..Len(path) : path[k] = item
    /\ Len(path) > Cardinality(Items) + 1

\* if item in path

InPath(item, path) == \E k \in 1..Len(path) : path[k] = item

RECURSIVE solve(_, _, _, _, _, _)
RECURSIVE SolveChildren(_, _, _, _, _, _, _)

SolveChildren_SkipFailed(bk, ins, k, default_tier, overrides, new_path, acc) ==
    IF k > Len(ins) THEN [kind |-> "ok", children |-> acc]
    ELSE LET c == solve(bk, ins[k].item, ins[k].rate, default_tier, overrides,
                        new_path)
         IN  SolveChildren(bk, ins, k + 1, default_tier, overrides, new_path,
                           IF c.kind # "ok" THEN acc ELSE Append(acc, c.node))

\* The loop "for in_item, in_rate in inputs_rates: children.append(_solve(...))"
SolveChildren(bk, ins, k, default_tier, overrides, new_path, acc) ==
    IF k > Len(ins) THEN [kind |-> "ok", children |-> acc]
    ELSE LET c == solve(bk, ins[k].item, ins[k].rate, default_tier, overrides,
                        new_path)
         IN  IF c.kind # "ok" THEN c
             ELSE SolveChildren(bk, ins, k + 1, default_tier, overrides,
                                new_path, Append(acc, c.node))

\* Planner._solve
solve(bk, item, rate, default_tier, overrides, path) ==
    IF InPath(item, path) THEN CycleFound(item, rate, default_tier, path)
    ELSE
    LET ri == get_active_recipe(bk, item)
    IN  IF ri = None
        THEN PlanNode(RawNode(item, rate, default_tier), path)
        ELSE
        LET r == bk.recipes[ri]
            tier == tier_for_node(r, default_tier, overrides, item)
            out_amt == primary_output_amount(r, item)
        IN  IF out_amt = None THEN Failure("NoOutputs", item, path)
            ELSE
            LET oc == CoreEffective(r, tier)
            IN  IF oc.kind # "ok" THEN Failure(oc.kind, item, path)
                ELSE
                LET ins == InputsRates(r, rate, out_amt)
                    kids == SolveChildren(bk, ins, 1, default_tier, overrides,
                                          Append(path, item), <<>>)
                IN  IF kids.kind # "ok" THEN kids
                    ELSE PlanNode(
                            [item |-> item, item_rate_per_s |-> rate,
                             recipe_id |-> r.id, machine |-> r.machine,
                             machine_tier |-> tier,
                             machines_needed |->
                                 Machines(rate, out_amt, oc.seconds),
                             per_machine_ops_per_s |->
                                 Frac(TICKS_PER_S * SubTick, oc.seconds),
                             effective_time_s |-> oc.seconds,
                             effective_eut |-> oc.eut,
                             overclocks |-> oc.overclocks,
                             inputs |-> ins,
                             children |-> kids.children], path)

\* The deepest nesting of _solve calls that a call of _solve reaches, itself
\* counted: the calls made are those of solve, the loop over the inputs
\* stopping at the first child that raises
RECURSIVE SolveDepth(_, _, _, _, _, _)
RECURSIVE SolveChildrenDepth(_, _, _, _, _, _)
SolveChildrenDepth(bk, ins, k, default_tier, overrides, new_path) ==
    IF k > Len(ins) THEN 0
    ELSE LET c == solve(bk, ins[k].item, ins[k].rate, default_tier, overrides,
                        new_path)
             d == SolveDepth(bk, ins[k].item, ins[k].rate, default_tier,
                             overrides, new_path)
         IN  IF c.kind # "ok" THEN d
             ELSE Max(d, SolveChildrenDepth(bk, ins, k + 1, default_tier,
                                            overrides, new_path))

SolveDepth(bk, item, rate, default_tier, overrides, path) ==
    IF InPath(item, path) THEN 1
    ELSE
    LET ri == get_active_recipe(bk, item)
    IN  IF ri = None THEN 1
        ELSE
        LET r == bk.recipes[ri]
            tier == tier_for_node(r, default_tier, overrides, item)
            out_amt == primary_output_amount(r, item)
        IN  IF out_amt = None THEN 1
            ELSE IF CoreEffective(r, tier).kind # "ok" THEN 1
            ELSE 1 + SolveChildrenDepth(bk, InputsRates(r, rate, out_amt), 1,
                                        default_tier, overrides,
                                        Append(path, item))

(***************************************************************************)
(* Plan Resolver, legacy: nomi_calc.py Planner                             *)
(***************************************************************************)
\* Planner._choose_output_amount: the amount, or None for the ValueError
\* "Recipe does not output item" (amt missing or 0)
choose_output_amount(r, item) ==
    LET amt == DictGet(r.outputs, item)
    IN  IF amt = None \/ amt = 0 THEN None ELSE amt

LegacyRawNode(item, rate, tier) ==
    [item |-> item, item_rate_per_s |-> rate, recipe_id |-> "<none>",
     machine |-> "<raw input>", machine_tier |-> tier, machines_needed |-> 0,
     per_machine_ops_per_s |-> Zero, effective_time_s |-> 0,
     effective_eut |-> 0, overclocks |-> 0, inputs |-> <<>>,
     children |-> <<>>]

\* if r.base_eut is not None: OverclockingRules(tier).apply(base_ticks, ...)
\* else max(base_ticks, 1) * TICK_S, no power, no overclocks
LegacyEffective(r, tier) ==
    LET base_ticks == LegacyBaseTicks(r.time_s)
    IN  IF r.base_eut # None THEN apply(base_ticks, r.base_eut, tier)
        ELSE [kind |-> "ok", overclocks |-> 0,
              seconds |-> Max(base_ticks, 1) * SubTick, eut |-> 0]

\* A call's outcome together with the visited set it leaves behind
Left(res, visited) == [res |-> res, visited |-> visited]

RECURSIVE solve_node(_, _, _, _, _)
RECURSIVE SolveNodeChildren(_, _, _, _, _, _)

\* The loop over inputs_rates; visited is the one set all calls share
SolveNodeChildren(bk, ins, k, tier, visited, acc) ==
    IF k > Len(ins)
    THEN Left([kind |-> "ok", children |-> acc], visited)
    ELSE LET c == solve_node(bk, ins[k].item, ins[k].rate, tier, visited)
         IN  IF c.res.kind # "ok" THEN c
             ELSE SolveNodeChildren(bk, ins, k + 1, tier, c.visited,
                                    Append(acc, c.res.node))

\* Planner._solve_node
solve_node(bk, item, rate, tier, visited) ==
    IF item \in visited
    THEN Left(Failure("Cycle", item, <<>>), visited)
    ELSE
    LET seen == visited \cup {item}                     \* visited.add(item)
        ri == get_active_recipe(bk, item)
    IN  IF ri = None
        THEN Left([kind |-> "ok", node |-> LegacyRawNode(item, rate, tier)],
                  seen)
        ELSE
        LET r == bk.recipes[ri]
            out_per_op == choose_output_amount(r, item)
        IN  IF out_per_op = None
            THEN Left(Failure("MissingOutput", item, <<>>), seen)
            ELSE
            LET oc == LegacyEffective(r, tier)
            IN  IF oc.kind # "ok"
                THEN Left(Failure(oc.kind, item, <<>>), seen)
                ELSE
                LET ins == InputsRates(r, rate, out_per_op)
                    kids == SolveNodeChildren(bk, ins, 1, tier, seen, <<>>)
                IN  IF kids.res.kind # "ok" THEN kids
                    ELSE Left(
                         [kind |-> "ok",
                          node |->
                            [item |-> item, item_rate_per_s |-> rate,
                             recipe_id |-> r.id, machine |-> r.machine,
                             machine_tier |-> tier,
                             machines_needed |->
                                 Machines(rate, out_per_op, oc.seconds),
                             per_machine_ops_per_s |->
                                 Frac(TICKS_PER_S * SubTick, oc.seconds),
                             effective_time_s |-> oc.seconds,
                             effective_eut |-> oc.eut,
                             overclocks |-> oc.overclocks,
                             inputs |-> ins,
                             children |-> kids.res.children]],
                         kids.visited \ {item})      \* visited.remove(item)

\* The deepest nesting of _solve_node calls that a call of _solve_node
\* reaches, itself counted
RECURSIVE SolveNodeDepth(_, _, _, _, _)
RECURSIVE SolveNodeChildrenDepth(_, _, _, _, _)
SolveNodeChildrenDepth(bk, ins, k, tier, visited) ==
    IF k > Len(ins) THEN 0
    ELSE LET c == solve_node(bk, ins[k].item, ins[k].rate, tier, visited)
             d == SolveNodeDepth(bk, ins[k].item, ins[k].rate, tier, visited)
         IN  IF c.res.kind # "ok" THEN d
             ELSE Max(d, SolveNodeChildrenDepth(bk, ins, k + 1, tier,
                                                c.visited))

SolveNodeDepth(bk, item, rate, tier, visited) ==
    IF item \in visited THEN 1
    ELSE
    LET seen == visited \cup {item}
        ri == get_active_recipe(bk, item)
    IN  IF ri = None THEN 1
        ELSE
        LET r == bk.recipes[ri]
            out_per_op == choose_output_amount(r, item)
        IN  IF out_per_op = None THEN 1
            ELSE IF LegacyEffective(r, tier).kind # "ok" THEN 1
            ELSE 1 + SolveNodeChildrenDepth(
                         bk, InputsRates(r, rate, out_per_op), 1, tier, seen)

(***************************************************************************)
(* Summary Aggregator: Planner._summary (both implementations)             *)
(***************************************************************************)
\* walk: the nodes of the tree, depth first, parents before children
RECURSIVE Walk(_)
RECURSIVE WalkAll(_, _)
WalkAll(children, k) ==
    IF k > Len(children) THEN <<>>
    ELSE Walk(children[k]) \o WalkAll(children, k + 1)

Walk(node) == <<node>> \o WalkAll(node.children, 1)

RECURSIVE SumFrom(_, _)
SumFrom(numbers, k) ==
    IF k > Len(numbers) THEN 0 ELSE numbers[k] + SumFrom(numbers, k + 1)

Summary_PowerPerNode(root, raw_marker) ==
    LET all == Walk(root)
        Counted(n) == n.machine # raw_marker /\ n.machines_needed > 0
        keys == {<<all[k].machine, all[k].machine_tier>> :
                    k \in {j \in 1..Len(all) : Counted(all[j])}}
    IN  [key \in keys |->
            LET Mine(n) == Counted(n) /\ <<n.machine, n.machine_tier>> = key
                M(n) == IF Mine(n) THEN n.machines_needed ELSE 0
                P(n) == IF Mine(n) THEN n.effective_eut ELSE 0
            IN  [machines |-> SumFrom([k \in 1..Len(all) |-> M(all[k])], 1),
                 eu_t |-> SumFrom([k \in 1..Len(all) |-> P(all[k])], 1)]]

\* The key f"{machine} [{tier}]" is the pair <<machine, tier>>.
summary(root, raw_marker) ==
    LET all == Walk(root)
        Counted(n) == n.machine # raw_marker /\ n.machines_needed > 0
        keys == {<<all[k].machine, all[k].machine_tier>> :
                    k \in {j \in 1..Len(all) : Counted(all[j])}}
    IN  [key \in keys |->
            LET Mine(n) == Counted(n) /\ <<n.machine, n.machine_tier>> = key
                M(n) == IF Mine(n) THEN n.machines_needed ELSE 0
                P(n) == IF Mine(n) THEN n.machines_needed * n.effective_eut
                        ELSE 0
            IN  [machines |-> SumFrom([k \in 1..Len(all) |-> M(all[k])], 1),
                 eu_t |-> SumFrom([k \in 1..Len(all) |-> P(all[k])], 1)]]

\* Planner.build_plan
build_plan(bk, target_item, target_rate, default_tier, overrides, now) ==
    LET root == solve(bk, target_item, target_rate, default_tier, overrides,
                      <<>>)
    IN  IF root.kind # "ok" THEN root
        ELSE [kind |-> "ok", target_item |-> target_item,
              target_rate_per_s |-> target_rate, nodes |-> root.node,
              summary |-> summary(root.node, "RAW"), timestamp |-> now]

LegacyBuildPlan_SharedVisited(bk, target_item, rate, tier, now) ==
    LET stale == IF now = 0 THEN {}
                 ELSE solve_node(bk, target_item, rate, tier, {}).visited
        root == solve_node(bk, target_item, rate, tier, stale).res
    IN  IF root.kind # "ok" THEN root
        ELSE [kind |-> "ok", target_item |-> target_item,
              target_rate_per_s |-> rate, nodes |-> root.node,
              summary |-> summary(root.node, "<raw input>"),
              timestamp |-> now]

\* nomi_calc.py Planner.build_plan
legacy_build_plan(bk, target_item, rate, tier, now) ==
    LET root == solve_node(bk, target_item, rate, tier, {}).res
    IN  IF root.kind # "ok" THEN root
        ELSE [kind |-> "ok", target_item |-> target_item,
              target_rate_per_s |-> rate, nodes |-> root.node,
              summary |-> summary(root.node, "<raw input>"),
              timestamp |-> now]

(***************************************************************************)
(* Plan builds                                                             *)
(***************************************************************************)
MaxRate == 3            \* target rates 0..MaxRate items per second

Rates == {Frac(n, 1) : n \in 0..MaxRate}

DefaultTiers == {"ULV", "LV", "HV", UnknownTier}

\* tier_overrides: item -> tier
OverrideMaps ==
    { <<>>, ("B" :> "MV"), ("A" :> "HV") @@ ("C" :> "ULV"),
      ("C" :> UnknownTier) }

CoreRequests ==
    [impl : {"core"}, item : Items, rate : Rates, tier : DefaultTiers,
     overrides : OverrideMaps]

LegacyRequests ==
    [impl : {"legacy"}, item : Items, rate : Rates, tier : DefaultTiers]

\* A plan build starts with no calculator call of its own pending
NoCalculatorCall == [impl |-> "none"]

\* A book as load_recipe_book reads it and a request are drawn.
InitPlan ==
    /\ oc_in = NoCalculatorCall
    /\ oc_out = Pending
    /\ book \in Books
    /\ request \in CoreRequests \cup LegacyRequests
    /\ plan = Pending
    /\ clock = 0
    /\ history_entries = <<>>

\* src/core/plan.py Planner(book, items_map).build_plan(...)
BuildPlan ==
    /\ request.impl = "core"
    /\ plan = Pending
    /\ plan' = build_plan(book, request.item, request.rate, request.tier,
                          request.overrides, clock)
    /\ clock' = clock + 1
    /\ UNCHANGED <<oc_in, oc_out, book, request, history_entries>>

\* nomi_calc.py Planner(rb).build_plan(item, rate, tier)
LegacyBuildPlan ==
    /\ request.impl = "legacy"
    /\ plan = Pending
    /\ plan' = legacy_build_plan(book, request.item, request.rate,
                                 request.tier, clock)
    /\ clock' = clock + 1
    /\ UNCHANGED <<oc_in, oc_out, book, request, history_entries>>

NextPlan == BuildPlan \/ LegacyBuildPlan

SpecPlan == InitPlan /\ [][NextPlan]_vars

(***************************************************************************)
(* Repeated builds with one Planner and one book                           *)
(***************************************************************************)
MaxBuilds == 3          \* builds of one request with the same Planner

\* planner.build_plan(...) called again on the Planner that built plan
Rebuild ==
    /\ request.impl = "core"
    /\ plan # Pending
    /\ clock < MaxBuilds
    /\ plan' = build_plan(book, request.item, request.rate, request.tier,
                          request.overrides, clock)
    /\ clock' = clock + 1
    /\ UNCHANGED <<oc_in, oc_out, book, request, history_entries>>

\* nomi_calc.py: planner.build_plan(...) called again; visited=set() is made
\* anew by every call
LegacyRebuild ==
    /\ request.impl = "legacy"
    /\ plan # Pending
    /\ clock < MaxBuilds
    /\ plan' = legacy_build_plan(book, request.item, request.rate,
                                 request.tier, clock)
    /\ clock' = clock + 1
    /\ UNCHANGED <<oc_in, oc_out, book, request, history_entries>>

NextRebuild == BuildPlan \/ LegacyBuildPlan \/ Rebuild \/ LegacyRebuild

SpecRebuild == InitPlan /\ [][NextRebuild]_vars

(***************************************************************************)
(* Edits of the RecipeBook: upsert_recipe from the dialog, the CSV import  *)
(* and direct calls                                                        *)
(***************************************************************************)
MaxRecipes == 3         \* recipes in the book being edited

\* Ids a caller passes itself ("A" is also what next_recipe_id makes first)
TypedIds == {"A", "x"}

\* The outputs dicts of the recipes passed to upsert_recipe
OutputChoices ==
    { <<>>, <<Qty("A", 1)>>, <<Qty("B", 2)>>, <<Qty("B", 1), Qty("A", 3)>> }

NewRecipe(id, outputs) ==
    Rec(id, "Mixer", 6, <<>>, outputs, None, NoTier, TRUE)

\* No calculator call and no build is under way: the book is being edited
Editing == oc_in = NoCalculatorCall /\ request = NoCalculatorCall

\* RecipeBook(): no recipe, nothing active
InitBook ==
    /\ oc_in = NoCalculatorCall
    /\ oc_out = Pending
    /\ book = NoBook
    /\ request = NoCalculatorCall
    /\ plan = Pending
    /\ clock = 0
    /\ history_entries = <<>>

\* book.upsert_recipe(recipe, make_active) with an id the caller chose, new
\* or in the book
UpsertRecipe ==
    /\ Editing
    /\ \E id \in TypedIds \cup {book.recipes[k].id : k \in 1..Len(book.recipes)},
          outputs \in OutputChoices, make_active \in BOOLEAN :
           /\ FirstWithId(book.recipes, id, 1) = None
              => Len(book.recipes) < MaxRecipes
           /\ book' = upsert_recipe(book, NewRecipe(id, outputs), make_active)
    /\ UNCHANGED <<oc_in, oc_out, request, plan, clock,
                 history_entries>>

\* The dialog and the CSV import: rid = next_recipe_id(first output), then
\* upsert_recipe(recipe, make_active=True)
AddRecipe ==
    /\ Editing
    /\ Len(book.recipes) < MaxRecipes
    /\ \E outputs \in OutputChoices \ {<<>>} :
           book' = upsert_recipe(
                       book,
                       NewRecipe(next_recipe_id(book, outputs[1].item),
                                 outputs),
                       TRUE)
    /\ UNCHANGED <<oc_in, oc_out, request, plan, clock,
                 history_entries>>

NextBook == UpsertRecipe \/ AddRecipe

SpecBook == InitBook /\ [][NextBook]_vars

(***************************************************************************)
(* The GUI's plan history: src/gui/app.py                                  *)
(***************************************************************************)
HistoryLimit == 20      \* if len(self.history_entries) > 20: ... [:20]
MaxRequests == 22       \* distinct requests that are recorded
MaxRecords == 2         \* _record_history calls in one session

\* The order sorted() puts the item ids in
ItemOrder == <<"A", "B", "C", "R">>

Rank(item) == CHOOSE k \in 1..Len(ItemOrder) : ItemOrder[k] = item

\* One entry of a tier_overrides dict; the dict is the sequence of its
\* entries in insertion order, no item twice
Ov(item, tier) == [item |-> item, tier |-> tier]

\* sorted(overrides.items()): the entries by ascending item id
Sorted(overrides) ==
    [k \in 1..Len(overrides) |->
        overrides[CHOOSE i \in 1..Len(overrides) :
                      Cardinality({j \in 1..Len(overrides) :
                                      Rank(overrides[j].item)
                                          < Rank(overrides[i].item)})
                      = k - 1]]

\* App._history_key
history_key(entry) ==
    <<entry.item, entry.rate, entry.tier, Sorted(entry.overrides)>>

\* [e for e in self.history_entries if self._history_key(e) != key]
RECURSIVE OtherKeys(_, _, _)
OtherKeys(entries, key, k) ==
    IF k > Len(entries) THEN <<>>
    ELSE (IF history_key(entries[k]) # key THEN <<entries[k]>> ELSE <<>>)
         \o OtherKeys(entries, key, k + 1)

RecordHistory_KeepOldest(entries, item, rate, tier, overrides) ==
    LET entry == [item |-> item, rate |-> rate, tier |-> tier,
                  overrides |-> Sorted(overrides)]
        all == <<entry>> \o OtherKeys(entries, history_key(entry), 1)
    IN  IF Len(all) > HistoryLimit
        THEN SubSeq(all, Len(all) - HistoryLimit + 1, Len(all))
        ELSE all

\* App._record_history: the list it leaves in self.history_entries (and that
\* _save_history writes to the file as it is)
record_history(entries, item, rate, tier, overrides) ==
    LET entry == [item |-> item, rate |-> rate, tier |-> tier,
                  overrides |-> Sorted(overrides)]
        all == <<entry>> \o OtherKeys(entries, history_key(entry), 1)
    IN  IF Len(all) > HistoryLimit THEN SubSeq(all, 1, HistoryLimit)
        ELSE all

\* In a file: a rate that is null, overrides that are no dict, and a file
\* that is missing or holds no list
NoRate == [n |-> 0, d |-> 0]

NotADict == <<Ov("", "")>>

NoList == <<[item |-> "", rate |-> NoRate, tier |-> "", overrides |-> <<>>]>>

\* The loop of _load_history: entries without a rate are skipped, overrides
\* that are not a dict become {}
RECURSIVE Cleaned(_, _)
Cleaned(file, k) ==
    IF k > Len(file) THEN <<>>
    ELSE (IF file[k].rate = NoRate THEN <<>>
          ELSE <<[file[k] EXCEPT !.overrides =
                      IF file[k].overrides = NotADict THEN <<>>
                      ELSE file[k].overrides]>>)
         \o Cleaned(file, k + 1)

\* App._load_history
load_history(file) ==
    IF file = NoList THEN <<>>
    ELSE LET cleaned == Cleaned(file, 1)
         IN  SubSeq(cleaned, 1,
                    IF Len(cleaned) < HistoryLimit THEN Len(cleaned)
                    ELSE HistoryLimit)

\* The requests recorded: number 2b - 1 and 2b are the same item, rate and
\* tier, without and with overrides (inserted C first, A second)
HistoryRequest(j) ==
    LET b == (j + 1) \div 2
    IN  [item |-> ItemOrder[((b - 1) % 4) + 1],
         rate |-> Frac(((b - 1) \div 4) + 1, 1),
         tier |-> IF b % 2 = 1 THEN "LV" ELSE "HV",
         overrides |-> IF j % 2 = 0
                       THEN <<Ov("C", "ULV"), Ov("A", "HV")>>
                       ELSE <<>>]

\* The entry _record_history makes of a request
EntryOf(q) == [q EXCEPT !.overrides = Sorted(q.overrides)]

\* The file _save_history wrote after requests n, n - 1, ..., 1 were recorded
SavedFile(n) == [k \in 1..n |-> EntryOf(HistoryRequest(k))]

\* Files edited by hand: entries without rate or with overrides that are no
\* dict; the same request twice, its overrides in two orders
EditedFiles ==
    { << [HistoryRequest(1) EXCEPT !.rate = NoRate],
         EntryOf(HistoryRequest(1)),
         [HistoryRequest(3) EXCEPT !.overrides = NotADict] >>,
      << HistoryRequest(2), EntryOf(HistoryRequest(2)),
         EntryOf(HistoryRequest(1)) >> }

\* plans/_history.json when the application starts
HistoryFiles ==
    {NoList} \cup EditedFiles
    \cup {SavedFile(n) : n \in {0, 1, 2, HistoryLimit - 1, HistoryLimit,
                                HistoryLimit + 1, MaxRequests}}

Reverse(seq) == [k \in 1..Len(seq) |-> seq[Len(seq) + 1 - k]]

\* App.__init__: self.history_entries = [] and self._load_history()
InitHistory ==
    /\ oc_in = NoCalculatorCall
    /\ oc_out = Pending
    /\ book = NoBook
    /\ request = [impl |-> "gui"]
    /\ plan = Pending
    /\ clock = 0
    /\ history_entries \in {load_history(file) : file \in HistoryFiles}

\* self._record_history(item, rate, default_tier, self.tier_overrides) at
\* the end of a successful App.build_plan
RecordHistory ==
    /\ request.impl = "gui"
    /\ clock < MaxRecords
    /\ \E j \in 1..MaxRequests, reversed \in BOOLEAN :
           LET q  == HistoryRequest(j)
               ov == IF reversed THEN Reverse(q.overrides) ELSE q.overrides
           IN  /\ request' = [impl |-> "gui", item |-> q.item,
                              rate |-> q.rate, tier |-> q.tier,
                              overrides |-> ov]
               /\ history_entries' =
                      record_history(history_entries, q.item, q.rate, q.tier,
                                     ov)
    /\ clock' = clock + 1
    /\ UNCHANGED <<oc_in, oc_out, book, plan>>

NextHistory == RecordHistory

SpecHistory == InitHistory /\ [][NextHistory]_vars

\* Every operation of the model
Init == InitOC \/ InitPlan \/ InitBook \/ InitHistory

Next == NextOC \/ NextPlan \/ NextRebuild \/ NextBook \/ NextHistory

Spec == Init /\ [][Next]_vars

(***************************************************************************)
(* Properties of the Overclock Calculator (checked under SpecOC)           *)
(***************************************************************************)
Returned == oc_out # Pending

KnownTier == oc_in.tier \in Tiers

Capacity == VOLTAGE_BY_TIER[oc_in.tier]

\* The base ticks the called implementation starts from
BaseTicksOfCall ==
    IF oc_in.impl = "core" THEN CoreBaseTicks(oc_in.time)
    ELSE LegacyBaseTicks(oc_in.time)

\* The same implementation, base power and tier with another base duration
SameCallWithTime(time_q) ==
    IF oc_in.impl = "core"
    THEN compute_overclock(time_q, oc_in.base_eut, oc_in.tier)
    ELSE apply(LegacyBaseTicks(time_q), oc_in.base_eut, oc_in.tier)

\* b * 5^n <= t * 14^n, that is b / 2.8^n <= t, without forming the powers
RECURSIVE ScaledLeq(_, _, _)
ScaledLeq(b, t, n) ==
    IF b <= t THEN TRUE
    ELSE IF n = 0 THEN FALSE
    ELSE ScaledLeq(5 * b, 14 * t, n - 1)

C2_VoltageExceededFails ==
    (Returned /\ KnownTier /\ oc_in.base_eut # None
              /\ oc_in.base_eut > Capacity)
    => oc_out.kind # "ok"

\* C3: with n overclocks the tick count is max(1, floor(base_ticks / 2^n))
\* when base_power <= 16 and max(1, ceil(base_ticks / 2.8^n)) when
\* base_power > 16.
C3_RoundingFollowsThreshold ==
    (Returned /\ oc_out.kind = "ok" /\ oc_in.base_eut # None)
    => LET n == oc_out.overclocks
           b == BaseTicksOfCall
           t == oc_out.ticks
       IN  /\ t >= 1
           /\ IF oc_in.base_eut <= 16
              THEN \/ t * Pow(2, n) <= b /\ b < (t + 1) * Pow(2, n)
                   \/ t = 1 /\ b < Pow(2, n)
              ELSE /\ ScaledLeq(b, t, n)
                   /\ t = 1 \/ ~ScaledLeq(b, t - 1, n)

\* C4: with overclocking enabled the effective power is base_power * 4^n
\* for the returned n and never exceeds the capacity of the tier.
C4_PowerWithinCapacity ==
    (Returned /\ oc_out.kind = "ok" /\ oc_in.base_eut # None
              /\ oc_in.base_eut > 0)
    => /\ oc_out.eut = oc_in.base_eut * Pow(4, oc_out.overclocks)
       /\ oc_out.eut <= Capacity

\* C5: for a valid input (duration > 0, 0 <= base power <= capacity or no
\* base power, a tier of the table) the result has at least one tick and
\* at least 1/20 s.
C5_AtLeastOneTick ==
    (Returned /\ KnownTier
              /\ (oc_in.base_eut = None
                  \/ (oc_in.base_eut >= 0 /\ oc_in.base_eut <= Capacity)))
    => /\ oc_out.kind = "ok"
       /\ oc_out.ticks >= 1
       /\ oc_out.seconds >= SubTick

\* A duration below one tick with overclocking disabled, and a duration that
\* four overclocks would shrink below one tick
C5_Witness ==
    /\ Returned /\ oc_out.kind = "ok"
    /\ \/ oc_in.impl = "core" /\ oc_in.base_eut = 0 /\ oc_in.time < SubTick
       \/ oc_in.impl = "legacy" /\ oc_out.overclocks >= 4
          /\ BaseTicksOfCall < 16 /\ oc_out.ticks = 1

\* The same implementation, base duration and base power at another tier
SameCallAtTier(tier) ==
    IF oc_in.impl = "core"
    THEN compute_overclock(oc_in.time, oc_in.base_eut, tier)
    ELSE apply(LegacyBaseTicks(oc_in.time), oc_in.base_eut, tier)

\* C18: for a base power valid at a tier (0 < base_power <= capacity), the
\* overclock count at any tier of the table with at least that capacity, the
\* next tier up first of all, is not lower.
C18_CountMonotoneInTier ==
    (Returned /\ KnownTier /\ oc_in.base_eut > 0 /\ oc_in.base_eut <= Capacity)
    => /\ oc_out.kind = "ok"
       /\ \A u \in Tiers :
              VOLTAGE_BY_TIER[u] >= Capacity
              => /\ SameCallAtTier(u).kind = "ok"
                 /\ SameCallAtTier(u).overclocks >= oc_out.overclocks

\* Base power 8 has one overclock at LV, two at MV and ten at UEV.
C18_Witness ==
    /\ Returned /\ oc_in.tier = "LV" /\ oc_in.base_eut = 8
    /\ oc_out.kind = "ok" /\ oc_out.overclocks = 1
    /\ SameCallAtTier("MV").overclocks = 2
    /\ SameCallAtTier("UEV").overclocks = 10

\* C19: the base duration is converted to whole ticks by rounding to the
\* nearest tick, at least 1.  With no overclock the returned ticks are the
\* base ticks: they lie within half a tick of the duration, unless raised
\* to 1.
C19_BaseTicksRoundedToNearest ==
    (Returned /\ oc_out.kind = "ok" /\ oc_out.overclocks = 0)
    => LET t == oc_out.ticks
       IN  /\ t >= 1
           /\ t = 1 \/ 2 * (t * SubTick - oc_in.time) <= SubTick
           /\ 2 * (oc_in.time - t * SubTick) <= SubTick

\* C20: every duration returned is a whole number of ticks, seconds = ticks
\* * (1/20 s), on every path; with base power 0 or absent the result has no
\* overclock, no power and the base duration in whole ticks.
C20_SecondsAreWholeTicks ==
    (Returned /\ oc_out.kind = "ok")
    => /\ oc_out.seconds = oc_out.ticks * SubTick
       /\ oc_in.base_eut \in {0, None}
          => /\ oc_out.overclocks = 0
             /\ oc_out.eut = 0

\* A call that gets as far as the correction step: the base power is present
\* and within the capacity of the tier (and positive, for the core)
ReachesCorrection ==
    /\ Returned /\ KnownTier /\ oc_in.base_eut # None
    /\ oc_in.base_eut <= Capacity
    /\ oc_in.impl = "core" => oc_in.base_eut > 0

\* The count n the correction starts from
CountBeforeCorrection ==
    IF oc_in.impl = "core" THEN CoreOverclockCount(Capacity, oc_in.base_eut)
    ELSE LegacyOverclockCount(Capacity, oc_in.base_eut)

\* Every iteration of the correction is one "n -= 1"
CorrectionIterations == CountBeforeCorrection - oc_out.overclocks

\* C21: the correction (decrement n and recompute while the rounded tick
\* count is below 1 and n > 0) ends after at most n iterations with n >= 0
\* and at least 1 tick, and the call returns a result, not a failure.
C21_CorrectionTerminates ==
    ReachesCorrection
    => /\ oc_out.kind = "ok"
       /\ CorrectionIterations \in 0..CountBeforeCorrection
       /\ oc_out.overclocks >= 0
       /\ oc_out.ticks >= 1

\* A duration of fewer ticks than the divisor of its n overclocks: unrounded,
\* the quotient is below one tick
C21_Witness ==
    /\ ReachesCorrection /\ oc_in.impl = "legacy"
    /\ CountBeforeCorrection >= 2
    /\ oc_in.base_eut <= LowPowerLimit
    /\ BaseTicksOfCall < Pow(2, CountBeforeCorrection)
    /\ oc_out.kind = "ok" /\ oc_out.ticks = 1

Built == plan # Pending

BuiltOk == Built /\ plan.kind = "ok"

IsRaw(node) == node.recipe_id \in {"<raw>", "<none>"}

\* The recipe a node was computed from
RecipeOf(node) == book.recipes[FirstWithId(book.recipes, node.recipe_id, 1)]

\* The output quantity the called implementation uses for a node
OutputQuantity(node) ==
    IF request.impl = "core"
    THEN primary_output_amount(RecipeOf(node), node.item)
    ELSE choose_output_amount(RecipeOf(node), node.item)

\* A recipe the called planner hands to its Overclock Calculator
Overclockable(r) ==
    IF request.impl = "core" THEN r.base_eut # None /\ r.gt_recipe
    ELSE r.base_eut # None

\* Duration, power and overclocks the called planner computes for a recipe
\* at a tier
EffectiveAt(r, tier) ==
    IF request.impl = "core" THEN CoreEffective(r, tier)
    ELSE LegacyEffective(r, tier)

\* The nodes of the built tree, as a set of positions in the walk
Positions == 1..Len(Walk(plan.nodes))

NodeAt(k) == Walk(plan.nodes)[k]

\* The items the active recipe of an item consumes
Consumes(item) ==
    LET ri == get_active_recipe(book, item)
    IN  IF ri = None THEN {}
        ELSE {book.recipes[ri].inputs[k].item :
                 k \in 1..Len(book.recipes[ri].inputs)}

RECURSIVE Closure(_, _)
Closure(S, k) ==
    IF k = 0 THEN S
    ELSE Closure(S \cup UNION {Consumes(i) : i \in S}, k - 1)

\* The items an item consumes directly or transitively
ConsumesTransitively(item) == Closure(Consumes(item), Cardinality(Items))

Cyclic(item) == item \in ConsumesTransitively(item)

RECURSIVE NoRepeatBelow(_, _)
NoRepeatBelow(node, ancestors) ==
    /\ node.item \notin ancestors
    /\ \A k \in 1..Len(node.children) :
           NoRepeatBelow(node.children[k], ancestors \cup {node.item})

\* The tier an item's node starts from: its override, else the default
RequestedTier(item) ==
    IF request.impl = "core" /\ item \in DOMAIN request.overrides
    THEN request.overrides[item]
    ELSE request.tier

\* The error that computing an item's own node raises, whatever its inputs
\* do ("none" when there is none)
OwnFailure(item) ==
    LET ri == get_active_recipe(book, item)
        r == book.recipes[ri]
    IN  IF request.impl = "core"
        THEN IF ri = None
             THEN IF request.tier \in Tiers THEN "none"
                  ELSE "ValidationError"
             ELSE IF Len(r.outputs) = 0 THEN "NoOutputs"
             ELSE IF RequestedTier(item) \in Tiers
                     \/ r.base_voltage # NoTier
             THEN "none"
             ELSE IF r.base_eut # None /\ r.gt_recipe THEN "KeyError"
             ELSE "ValidationError"
        ELSE IF ri = None THEN "none"
        ELSE IF DictGet(r.outputs, item) = None THEN "MissingOutput"
             ELSE IF r.base_eut = None THEN "none"
             ELSE IF request.tier \notin Tiers THEN "UnknownTier"
             ELSE IF r.base_eut > VOLTAGE_BY_TIER[request.tier]
             THEN "VoltageExceeded"
             ELSE "none"

\* C6: every non-raw node has machines_needed = ceil(required_ops /
\* per-machine throughput), required_ops = rate / output quantity and
\* throughput = 1 / effective duration; a non-negative integer, at least 1
\* when rate > 0 and the output quantity > 0.
C6_MachinesNeeded ==
    BuiltOk =>
    \A k \in Positions :
        LET node == NodeAt(k)
            need == node.item_rate_per_s.n * node.effective_time_s
            unit == node.item_rate_per_s.d * OutputQuantity(node)
                    * TICKS_PER_S * SubTick
            m    == node.machines_needed
        IN  ~IsRaw(node) =>
            /\ node.per_machine_ops_per_s.n * node.effective_time_s
               = node.per_machine_ops_per_s.d * TICKS_PER_S * SubTick
            /\ m \in Nat
            /\ m * unit >= need
            /\ (m - 1) * unit < need
            /\ (node.item_rate_per_s.n > 0 /\ OutputQuantity(node) > 0)
               => m >= 1

\* The scenario of the specification: 3/s of an item made one per 5 s
\* operation needs 15 machines
C6_Witness ==
    /\ BuiltOk /\ request.impl = "core" /\ request.rate = Frac(3, 1)
    /\ plan.nodes.recipe_id = "a_asm"
    /\ plan.nodes.effective_time_s = 100 * SubTick
    /\ plan.nodes.machines_needed = 15

\* A book whose active recipes exist and list their item among their
\* outputs, asked for with a tier of the table
WellFormedRequest ==
    /\ request.tier \in Tiers
    /\ \A i \in DOMAIN book.active_by_output :
           /\ get_active_recipe(book, i) # None
           /\ DictGet(book.recipes[get_active_recipe(book, i)].outputs, i)
              # None

\* C7 as stated (on well-formed books, where it says least): when the
\* target consumes itself, directly or transitively, resolving it raises a
\* cycle error; and no returned tree has an item twice on a root-to-leaf
\* path.
C7_CycleRaisesCycleError ==
    /\ (Built /\ WellFormedRequest /\ Cyclic(request.item))
       => plan.kind = "Cycle"
    /\ BuiltOk => NoRepeatBelow(plan.nodes, {})

\* C7 as amended: when the target consumes itself, resolving it never
\* returns a tree: it raises the cycle error, or the error that the own node
\* of an item met on the way raises first (unknown or invalid tier, voltage
\* exceeded, missing output, no outputs); and no returned tree has an item twice on a
\* root-to-leaf path.
C7_CycleNeverReturnsTree ==
    /\ (Built /\ Cyclic(request.item))
       => /\ plan.kind # "ok"
          /\ plan.kind # "Cycle"
             => /\ plan.item \in {request.item}
                                 \cup ConsumesTransitively(request.item)
                /\ plan.kind = OwnFailure(plan.item)
    /\ BuiltOk => NoRepeatBelow(plan.nodes, {})

\* A transitive cycle reported with its path
C7_Witness ==
    /\ Built /\ request.impl = "core" /\ Cyclic(request.item)
    /\ plan.kind = "Cycle" /\ Len(plan.path) >= 3

\* C8: a cycle error is raised only for an item that is among its own
\* ancestors: when no item needed for the target consumes itself, no cycle
\* error is raised, also when an item is needed in several branches.
C8_NoCycleErrorWithoutCycle ==
    (Built /\ plan.kind = "Cycle")
    => \E i \in {request.item} \cup ConsumesTransitively(request.item) :
           Cyclic(i)

\* C9: resolving an item without active recipe, at a default tier of the
\* table, yields one terminal raw node: raw marker, no machines, no power, no
\* overclocks, no inputs, no children, the requested rate; and so is every
\* node of such an item in every tree returned.
C9_RawInputNode ==
    /\ (Built /\ get_active_recipe(book, request.item) = None
              /\ request.tier \in Tiers)
       => /\ plan.kind = "ok"
          /\ IsRaw(plan.nodes)
          /\ plan.nodes.item = request.item
          /\ plan.nodes.item_rate_per_s = request.rate
    /\ BuiltOk =>
       \A k \in Positions :
           LET node == NodeAt(k)
           IN  get_active_recipe(book, node.item) = None
               => /\ IsRaw(node)
                  /\ node.machine \in {"RAW", "<raw input>"}
                  /\ node.machines_needed = 0
                  /\ node.effective_eut = 0
                  /\ node.overclocks = 0
                  /\ node.inputs = <<>>
                  /\ node.children = <<>>

\* A raw target, and one whose active recipe id is not in the book
C9_Witness ==
    /\ BuiltOk /\ request.impl = "core" /\ request.item = "B"
    /\ "B" \in DOMAIN book.active_by_output
    /\ book.active_by_output["B"] = "gone"
    /\ plan.nodes.machine = "RAW"
    /\ plan.nodes.item_rate_per_s = request.rate

\* C10: a non-raw node's tier is the item's override, else the default
\* tier, replaced by the recipe's base_voltage exactly when that has a
\* strictly larger capacity: its capacity is the larger of the two.
C10_TierRaisedNeverLowered ==
    (BuiltOk /\ request.impl = "core") =>
    \A k \in Positions :
        LET node == NodeAt(k)
            t0 == RequestedTier(node.item)
            bv == RecipeOf(node).base_voltage
        IN  (~IsRaw(node) /\ t0 \in Tiers) =>
            /\ node.machine_tier \in Tiers
            /\ VOLTAGE_BY_TIER[node.machine_tier]
               = Max(VOLTAGE_BY_TIER[t0],
                     IF bv = NoTier THEN 0 ELSE VOLTAGE_BY_TIER[bv])
            /\ node.machine_tier =
               IF bv # NoTier /\ VOLTAGE_BY_TIER[bv] > VOLTAGE_BY_TIER[t0]
               THEN bv ELSE t0

\* One plan with a node raised to its base_voltage (r_mine: HV over the
\* requested ULV or LV) and a node kept above its base_voltage (a_mac: the
\* override HV over MV)
C10_Witness ==
    /\ BuiltOk /\ request.impl = "core"
    /\ \E k \in Positions :
           /\ NodeAt(k).recipe_id = "r_mine" /\ NodeAt(k).machine_tier = "HV"
           /\ RequestedTier(NodeAt(k).item) \in {"ULV", "LV"}
    /\ \E k \in Positions :
           /\ NodeAt(k).recipe_id = "a_mac" /\ NodeAt(k).machine_tier = "HV"
           /\ RequestedTier(NodeAt(k).item) = "HV"

\* What a node adds to a summary key: its machines, or its machines times
\* its effective power; nothing when it is raw or needs no machine
OwnShare(node, key, power) ==
    IF ~IsRaw(node) /\ node.machines_needed > 0
       /\ <<node.machine, node.machine_tier>> = key
    THEN IF power THEN node.machines_needed * node.effective_eut
         ELSE node.machines_needed
    ELSE 0

\* The shares of a node and of every node below it, each occurrence counted:
\* children k.. of the node first, then the node itself
RECURSIVE TotalBelow(_, _, _, _)
TotalBelow(node, k, key, power) ==
    IF k > Len(node.children) THEN OwnShare(node, key, power)
    ELSE TotalBelow(node.children[k], 1, key, power)
         + TotalBelow(node, k + 1, key, power)

\* Every key a summary could have
SummaryKeys ==
    {RecipePool[k].machine : k \in 1..Len(RecipePool)}
    \X (Tiers \cup {UnknownTier})

\* C11: the summary maps each (machine, tier) to the sum of machines_needed
\* and the sum of machines_needed * effective power over the non-raw node
\* occurrences with machines_needed > 0 of that machine and tier; a key is
\* present exactly when such a node exists.
C11_SummaryTotals ==
    BuiltOk =>
    /\ DOMAIN plan.summary
       = {key \in SummaryKeys : TotalBelow(plan.nodes, 1, key, FALSE) > 0}
    /\ \A key \in DOMAIN plan.summary :
           /\ plan.summary[key].machines
              = TotalBelow(plan.nodes, 1, key, FALSE)
           /\ plan.summary[key].eu_t = TotalBelow(plan.nodes, 1, key, TRUE)

\* Two recipe nodes of different items under one key, one drawing power, and
\* an item that occurs twice in the tree under another key
C11_Witness ==
    /\ BuiltOk
    /\ \E i, j \in Positions :
           /\ i # j
           /\ ~IsRaw(NodeAt(i)) /\ ~IsRaw(NodeAt(j))
           /\ NodeAt(i).item # NodeAt(j).item
           /\ NodeAt(i).machine = NodeAt(j).machine
           /\ NodeAt(i).machine_tier = NodeAt(j).machine_tier
           /\ NodeAt(i).effective_eut > 0
           /\ NodeAt(j).machines_needed > 0
           /\ plan.summary[<<NodeAt(i).machine, NodeAt(i).machine_tier>>]
                  .machines
              >= NodeAt(i).machines_needed + NodeAt(j).machines_needed
    /\ \E i, j \in Positions :
           /\ i # j /\ NodeAt(i).item = NodeAt(j).item /\ ~IsRaw(NodeAt(i))
           /\ NodeAt(i).machines_needed > 0
           /\ plan.summary[<<NodeAt(i).machine, NodeAt(i).machine_tier>>]
                  .machines
              = NodeAt(i).machines_needed + NodeAt(j).machines_needed

\* The node that resolving an item at a rate on its own gives, under the
\* tiers of the request
ResolvedAlone(item, rate) ==
    IF request.impl = "core"
    THEN solve(book, item, rate, request.tier, request.overrides, <<>>)
    ELSE solve_node(book, item, rate, request.tier, {}).res

\* C12: a non-raw node has one child per input of its recipe, in the
\* recipe's input order; child i is the resolution of input item i at rate
\* (node rate / output quantity) * input quantity i, and the node's inputs
\* list holds the same (item, rate) pairs in the same order.
C12_ChildPerInput ==
    BuiltOk =>
    \A p \in Positions :
        LET node == NodeAt(p)
            r    == RecipeOf(node)
            out  == OutputQuantity(node)
        IN  ~IsRaw(node) =>
            /\ Len(node.children) = Len(r.inputs)
            /\ Len(node.inputs) = Len(r.inputs)
            /\ \A k \in 1..Len(r.inputs) :
                   LET in    == node.inputs[k]
                       child == node.children[k]
                   IN  /\ in.item = r.inputs[k].item
                       /\ in.rate.d > 0
                       /\ in.rate.n * node.item_rate_per_s.d * out
                          = node.item_rate_per_s.n * r.inputs[k].amt
                            * in.rate.d
                       /\ child.item = in.item
                       /\ child.item_rate_per_s = in.rate
                       /\ ResolvedAlone(in.item, in.rate)
                          = [kind |-> "ok", node |-> child]

\* A node with two inputs in recipe order, and a node whose operation rate is
\* a fraction of a machine's (c_mac makes 4 per operation)
C12_Witness ==
    /\ BuiltOk
    /\ plan.nodes.recipe_id = "a_asm"
    /\ Len(plan.nodes.children) = 2
    /\ plan.nodes.children[1].item = "B"
    /\ plan.nodes.children[2].item = "C"
    /\ plan.nodes.children[2].recipe_id = "c_mac"
    /\ plan.nodes.children[2].machines_needed = 1
    /\ plan.nodes.children[2].children[1].item_rate_per_s.d = 4

\* C14: when the default tier, or the override that applies to an item, is
\* not in the Tier Table, resolution fails: no plan is returned with a recipe
\* node (overclockable or not, with or without base_voltage) whose requested
\* tier is unknown, be it kept on the node or replaced by another tier.
C14_UnknownTierFails ==
    BuiltOk =>
    \A k \in Positions :
        ~IsRaw(NodeAt(k)) => RequestedTier(NodeAt(k).item) \in Tiers

\* C15: when the active recipe of an item does not list the item among its
\* outputs, resolving the item fails: no plan is returned with a node
\* computed from a recipe that does not output the node's item.
C15_MissingOutputFails ==
    /\ (Built /\ get_active_recipe(book, request.item) # None
              /\ DictGet(book.recipes[get_active_recipe(book, request.item)]
                             .outputs, request.item) = None)
       => plan.kind \in {"MissingOutput", "NoOutputs"}
    /\ BuiltOk =>
       \A k \in Positions :
           ~IsRaw(NodeAt(k))
           => DictGet(RecipeOf(NodeAt(k)).outputs, NodeAt(k).item) # None

\* The items whose nodes a build of the target asks for
Needed == {request.item} \cup ConsumesTransitively(request.item)

\* C16: build_plan returns a complete plan or an error.  When resolving any
\* item needed for the target fails, the build fails, and what it returns
\* then has no tree and no summary; a plan returned has every branch of every
\* recipe node and the summary of the whole tree.
C16_CompletePlanOrError ==
    Built =>
    /\ (\E i \in Needed : ResolvedAlone(i, request.rate).kind # "ok")
       => plan.kind # "ok"
    /\ plan.kind # "ok" => DOMAIN plan = {"kind", "item", "path"}
    /\ plan.kind = "ok"
       => /\ DOMAIN plan = {"kind", "target_item", "target_rate_per_s",
                            "nodes", "summary", "timestamp"}
          /\ \A k \in Positions :
                 ~IsRaw(NodeAt(k))
                 => Len(NodeAt(k).children) = Len(RecipeOf(NodeAt(k)).inputs)
          /\ \A key \in SummaryKeys :
                 IF TotalBelow(plan.nodes, 1, key, FALSE) > 0
                 THEN /\ key \in DOMAIN plan.summary
                      /\ plan.summary[key].machines
                         = TotalBelow(plan.nodes, 1, key, FALSE)
                 ELSE key \notin DOMAIN plan.summary

\* A failure at the second input of the target's recipe, after the first
\* input was resolved
C16_Witness ==
    /\ Built /\ request.impl = "core" /\ request.item = "A"
    /\ plan.kind \notin {"ok", "pending"}
    /\ plan.item = "C"
    /\ "A" \in DOMAIN book.active_by_output
    /\ book.active_by_output["A"] = "a_asm"
    /\ ResolvedAlone("B", request.rate).kind = "ok"
    /\ ~IsRaw(ResolvedAlone("B", request.rate).node)

\* C17: in every plan returned, every non-raw node has an effective duration
\* of at least one tick (1/20 s), overclocked or not.
C17_NodeAtLeastOneTick ==
    BuiltOk =>
    \A k \in Positions :
        ~IsRaw(NodeAt(k)) => NodeAt(k).effective_time_s >= SubTick

\* A node without the subtrees below it
OwnFields(node) == [f \in DOMAIN node \ {"children"} |-> node[f]]

\* The override map without its entry for an item
Without(overrides, item) ==
    [i \in DOMAIN overrides \ {item} |-> overrides[i]]

\* The same build with the override of one item taken away
BuiltWithout(item) ==
    build_plan(book, request.item, request.rate, request.tier,
               Without(request.overrides, item), 0)

\* C22: a node's duration, power and overclock count are those of its
\* recipe at the node's own tier; the node is what resolving its item alone
\* gives, whatever tier its ancestors and siblings got; and an override for
\* item X changes only the nodes whose item is X.
C22_OwnTierOnly ==
    BuiltOk =>
    /\ \A k \in Positions :
           LET node == NodeAt(k)
           IN  /\ ResolvedAlone(node.item, node.item_rate_per_s)
                  = [kind |-> "ok", node |-> node]
               /\ IsRaw(node) => node.machine_tier = request.tier
               /\ ~IsRaw(node)
                  => LET oc == EffectiveAt(RecipeOf(node), node.machine_tier)
                     IN  /\ oc.kind = "ok"
                         /\ node.effective_time_s = oc.seconds
                         /\ node.effective_eut = oc.eut
                         /\ node.overclocks = oc.overclocks
    /\ request.impl = "core"
       => \A x \in DOMAIN request.overrides :
              LET other == BuiltWithout(x)
              IN  other.kind = "ok"
                  => /\ Len(Walk(other.nodes)) = Len(Walk(plan.nodes))
                     /\ \A k \in Positions :
                            NodeAt(k).item # x
                            => OwnFields(NodeAt(k))
                               = OwnFields(Walk(other.nodes)[k])

\* A by a_asm at its override HV, its input C by c_mac raised from the
\* override ULV to the base_voltage LV and overclocked there, its input B and
\* the raw inputs below at the default tier
C22_Witness ==
    /\ BuiltOk /\ request.impl = "core" /\ request.tier = "ULV"
    /\ request.overrides = ("A" :> "HV") @@ ("C" :> "ULV")
    /\ plan.nodes.recipe_id = "a_asm" /\ plan.nodes.machine_tier = "HV"
    /\ plan.nodes.children[1].recipe_id = "b_ore"
    /\ plan.nodes.children[1].machine_tier = "ULV"
    /\ plan.nodes.children[2].recipe_id = "c_mac"
    /\ plan.nodes.children[2].machine_tier = "LV"
    /\ plan.nodes.children[2].overclocks = 2
    /\ plan.nodes.children[2].children[1].machine = "RAW"
    /\ plan.nodes.children[2].children[1].machine_tier = "ULV"
    /\ BuiltWithout("C").kind = "ok"
    /\ BuiltWithout("A").nodes.machine_tier = "ULV"

\* The deepest nesting of resolver calls during the build of the request
BuildDepth ==
    IF request.impl = "core"
    THEN SolveDepth(book, request.item, request.rate, request.tier,
                    request.overrides, <<>>)
    ELSE SolveNodeDepth(book, request.item, request.rate, request.tier, {})

\* The number of distinct items that have an active recipe
ActiveCount ==
    Cardinality({i \in Items : get_active_recipe(book, i) # None})

RECURSIVE Height(_)
Height(node) ==
    LET below == {Height(node.children[k]) : k \in 1..Len(node.children)}
    IN  1 + (IF below = {} THEN 0
             ELSE CHOOSE h \in below : \A g \in below : g <= h)

\* What a build can end with
Outcomes ==
    {"ok", "Cycle", "NoOutputs", "MissingOutput", "KeyError",
     "ValidationError", "UnknownTier", "VoltageExceeded"}

\* C23: for every catalog, cyclic or not, and every target the resolution
\* ends, with a tree or with an error; the recursion is never deeper than
\* the number of distinct items with an active recipe plus one.
C23_ResolutionBounded ==
    Built =>
    /\ plan.kind \in Outcomes
    /\ BuildDepth <= ActiveCount + 1
    /\ plan.kind = "ok" => Height(plan.nodes) <= ActiveCount + 1
    /\ (plan.kind = "Cycle" /\ request.impl = "core")
       => Len(plan.path) <= ActiveCount + 1

\* A catalog in which A and B consume each other and nothing else has a
\* recipe: the third call, A below B below A, is rejected at depth 3
C23_Witness ==
    /\ Built /\ plan.kind = "Cycle" /\ request.item = "A"
    /\ Cyclic("A") /\ Cyclic("B")
    /\ ActiveCount = 2
    /\ BuildDepth = ActiveCount + 1

\* The called implementation's Overclock Calculator on a recipe at a tier
CalculatorAt(r, tier) ==
    IF request.impl = "core"
    THEN compute_overclock(r.time_s, r.base_eut, tier)
    ELSE apply(LegacyBaseTicks(r.time_s), r.base_eut, tier)

\* C24: the Overclock Calculator is applied to a node exactly when its
\* recipe has a base power and gt_recipe is true; every other recipe node
\* (no base power, or gt_recipe false even with a base power) has the
\* recipe's base duration unmodified, zero power and zero overclocks,
\* whatever the tier.
C24_CalculatorOnlyWhenOverclockable ==
    BuiltOk =>
    \A k \in Positions :
        LET node == NodeAt(k)
            r    == RecipeOf(node)
        IN  ~IsRaw(node) =>
            IF r.base_eut # None /\ r.gt_recipe
            THEN LET oc == CalculatorAt(r, node.machine_tier)
                 IN  /\ oc.kind = "ok"
                     /\ node.effective_time_s = oc.seconds
                     /\ node.effective_eut = oc.eut
                     /\ node.overclocks = oc.overclocks
            ELSE /\ node.effective_time_s = r.time_s
                 /\ node.effective_eut = 0
                 /\ node.overclocks = 0

\* The quantity a recipe lists for an item, else that of its first output
ListedOrFirst(r, item) ==
    IF \E k \in 1..Len(r.outputs) : r.outputs[k].item = item
    THEN r.outputs[CHOOSE k \in 1..Len(r.outputs) : r.outputs[k].item = item]
             .amt
    ELSE r.outputs[1].amt

\* C25: the output quantity used for a node is the quantity its recipe lists
\* for the node's item, or, when the recipe does not list the item, the
\* quantity of the recipe's first output, and resolution goes on; an output
\* error is raised only for a recipe without any output.
C25_FirstOutputFallback ==
    /\ (Built /\ plan.kind \in {"MissingOutput", "NoOutputs"})
       => /\ get_active_recipe(book, plan.item) # None
          /\ book.recipes[get_active_recipe(book, plan.item)].outputs = <<>>
    /\ BuiltOk
       => \A k \in Positions :
              LET node == NodeAt(k)
                  r    == RecipeOf(node)
              IN  ~IsRaw(node)
                  => /\ r.outputs # <<>>
                     /\ node.machines_needed
                        = Machines(node.item_rate_per_s,
                                   ListedOrFirst(r, node.item),
                                   node.effective_time_s)
                     /\ node.inputs
                        = InputsRates(r, node.item_rate_per_s,
                                      ListedOrFirst(r, node.item))

\* Below a node reached along path, every child is what its call returns
\* when given the ancestors of the first child: the path with the node's
\* item, resp. the visited set holding exactly those items, which the call
\* of each child hands back as it got it
RECURSIVE SiblingsSeeSameAncestors(_, _)
SiblingsSeeSameAncestors(node, path) ==
    LET new_path == Append(path, node.item)
        seen     == {new_path[j] : j \in 1..Len(new_path)}
    IN  \A k \in 1..Len(node.children) :
            LET c == node.children[k]
            IN  /\ IF request.impl = "core"
                   THEN solve(book, c.item, c.item_rate_per_s, request.tier,
                              request.overrides, new_path)
                        = [kind |-> "ok", node |-> c]
                   ELSE solve_node(book, c.item, c.item_rate_per_s,
                                   request.tier, seen)
                        = Left([kind |-> "ok", node |-> c], seen)
                /\ SiblingsSeeSameAncestors(c, new_path)

\* C26: a resolver call that returns normally, for a raw item or a recipe
\* item, leaves the caller's ancestor path / visited set as it was before
\* the call, so every sibling input is checked against the same ancestors as
\* the first one; and the catalog is not modified.
C26_CallLeavesAncestorsAlone ==
    /\ Built
       => \A i \in Items :
              \A V \in SUBSET (Items \ {i}) :
                  LET s == solve_node(book, i, request.rate, request.tier, V)
                  IN  (request.impl = "legacy" /\ s.res.kind = "ok")
                      => s.visited = V
    /\ BuiltOk => SiblingsSeeSameAncestors(plan.nodes, <<>>)
    /\ Built => book \in Books

C27_HigherTierNeverSlower ==
    /\ (Returned /\ KnownTier /\ oc_in.base_eut # None
                 /\ oc_in.base_eut <= Capacity)
       => /\ oc_out.kind = "ok"
          /\ \A u \in Tiers :
                 VOLTAGE_BY_TIER[u] >= Capacity
                 => /\ SameCallAtTier(u).kind = "ok"
                    /\ SameCallAtTier(u).ticks <= oc_out.ticks
                    /\ SameCallAtTier(u).seconds <= oc_out.seconds
                    /\ SameCallAtTier(u).eut >= oc_out.eut
    /\ BuiltOk
       => \A k \in Positions :
              LET node == NodeAt(k)
                  r    == RecipeOf(node)
              IN  (~IsRaw(node) /\ Overclockable(r)
                   /\ node.machine_tier \in Tiers
                   /\ r.base_eut <= VOLTAGE_BY_TIER[node.machine_tier])
                  => \A u \in Tiers :
                         VOLTAGE_BY_TIER[u]
                             >= VOLTAGE_BY_TIER[node.machine_tier]
                         => LET oc == EffectiveAt(r, u)
                            IN  /\ oc.kind = "ok"
                                /\ oc.seconds <= node.effective_time_s
                                /\ Machines(node.item_rate_per_s,
                                            OutputQuantity(node), oc.seconds)
                                   <= node.machines_needed
                                /\ oc.eut >= node.effective_eut

\* b_mix (33 EU/t) made 3 per second at MV: no overclock, 7 ticks and 2
\* machines; at HV one overclock, 3 ticks, 1 machine and 132 EU/t
C27_Witness ==
    /\ BuiltOk /\ request.impl = "core"
    /\ plan.nodes.recipe_id = "b_mix" /\ plan.nodes.machine_tier = "MV"
    /\ plan.nodes.effective_time_s = 7 * SubTick
    /\ plan.nodes.machines_needed = 2
    /\ plan.nodes.effective_eut = 33
    /\ EffectiveAt(RecipeOf(plan.nodes), "HV").seconds = 3 * SubTick
    /\ EffectiveAt(RecipeOf(plan.nodes), "HV").eut = 132
    /\ Machines(plan.nodes.item_rate_per_s, 1, 3 * SubTick) = 1

(***************************************************************************)
(* Properties of RecipeBook edits (checked under SpecBook)                 *)
(***************************************************************************)
\* C29: from an empty RecipeBook, after any sequence of upsert_recipe calls
\* the recipe ids of the book are pairwise distinct, every entry of
\* active_by_output names a recipe of the book whose outputs contain the
\* entry's item, and get_active_recipe(item), when it returns a recipe,
\* returns one that produces item.
C29_ActiveEntriesValid ==
    /\ \A i, j \in 1..Len(book.recipes) :
           book.recipes[i].id = book.recipes[j].id => i = j
    /\ \A item \in DOMAIN book.active_by_output :
           \E k \in 1..Len(book.recipes) :
               /\ book.recipes[k].id = book.active_by_output[item]
               /\ item \in Keys(book.recipes[k].outputs)
    /\ \A item \in Items :
           get_active_recipe(book, item) # None
           => item \in Keys(book.recipes[get_active_recipe(book, item)].outputs)

\* Recipe "A" was active for A and B and was replaced by one that makes only
\* B: its entry for A is gone, while "x" makes A without being active
C29_Witness ==
    /\ Len(book.recipes) = 2
    /\ book.recipes[1].id = "A" /\ Keys(book.recipes[1].outputs) = {"B"}
    /\ book.recipes[2].id = "x" /\ Keys(book.recipes[2].outputs) = {"A"}
    /\ DOMAIN book.active_by_output = {"B"}
    /\ book.active_by_output["B"] = "A"

(***************************************************************************)
(* Properties of the plan history (checked under SpecHistory)              *)
(***************************************************************************)
\* What identifies a recorded request: item, rate, tier and the overrides,
\* whatever order they were given in
KeyOf(entry) ==
    <<entry.item, entry.rate, entry.tier,
      {<<entry.overrides[k].item, entry.overrides[k].tier>> :
          k \in 1..Len(entry.overrides)}>>

NoTwoShareKey(entries) ==
    \A i, j \in 1..Len(entries) :
        KeyOf(entries[i]) = KeyOf(entries[j]) => i = j

RECURSIVE EntriesOtherThan(_, _, _)
EntriesOtherThan(entries, key, k) ==
    IF k > Len(entries) THEN <<>>
    ELSE (IF KeyOf(entries[k]) # key THEN <<entries[k]>> ELSE <<>>)
         \o EntriesOtherThan(entries, key, k + 1)

\* The recorded request is at index 0
RecordedAtFront ==
    clock > 0
    => /\ Len(history_entries) > 0
       /\ KeyOf(history_entries[1]) = KeyOf(request)

\* A record puts the request in front of the other entries, which keep
\* their order; those beyond the limit, the oldest, are dropped
MovesToFront ==
    LET others == EntriesOtherThan(history_entries, KeyOf(request'), 1)
        room   == IF Len(others) < HistoryLimit - 1 THEN Len(others)
                  ELSE HistoryLimit - 1
    IN  /\ Len(history_entries') = 1 + room
        /\ KeyOf(history_entries'[1]) = KeyOf(request')
        /\ SubSeq(history_entries', 2, 1 + room) = SubSeq(others, 1, room)

====
